---- MODULE Spec2Model ----
(***************************************************************************)
(* Model of src/src/utils/validate_data.py: validate_telco_data(df), the   *)
(* data-quality gate of the churn pipeline, in its two modes               *)
(* (GE_AVAILABLE: Great Expectations; otherwise the pandas fallback).      *)
(*                                                                         *)
(* A dataset is [columns, rows]; a cell is Num(n), Str(s) or NULL.  Text   *)
(* in a numeric column is a sequence of characters, so that pd.to_numeric  *)
(* is modelled by parsing it.  Amounts are whole numbers (70 stands for    *)
(* 70.35): every comparison of the code is against 0, 120, 200 or another  *)
(* cell.  The checks are all()/any()/counts over rows, so the datasets are *)
(* enumerated up to the order of their rows.                               *)
(***************************************************************************)
EXTENDS Integers, Sequences, FiniteSets, TLC

\* GE_AVAILABLE          the capability flag set once at import
\* df                    the DataFrame object the callers pass
\* pc[c]                 where call c stands in validate_telco_data
\* failed_expectations[c], result[c]   the local list and the value returned
\* df0                   history: df as it was before the first call
\* overlapped            history: a call was entered while another was running
VARIABLES GE_AVAILABLE, df, pc, failed_expectations, result, df0, overlapped

vars == <<GE_AVAILABLE, df, pc, failed_expectations, result, df0, overlapped>>

(* ------------------------------ bounds -------------------------------- *)
\* rows of the datasets enumerated cell by cell
MaxRows == 2
\* rows of the datasets made of whole groups of equal rows
MaxBulkRows == 20
\* rows of such a dataset that break TotalCharges >= MonthlyCharges
MaxBulkBad == 2
\* rows of such a dataset with both charges null
MaxBulkNull == 2
\* required columns a dataset may lack
MaxMissing == 1

\* the two calls made on the one dataset object
Callers == {1, 2}

(* ------------------------------- cells -------------------------------- *)
Num(n) == [num |-> n]
Str(s) == [str |-> s]
NULL == [null |-> TRUE]

IsNum(cell) == "num" \in DOMAIN cell
IsStr(cell) == "str" \in DOMAIN cell
IsNull(cell) == "null" \in DOMAIN cell

(* --------------------------- pd.to_numeric ---------------------------- *)
Digits == <<"0", "1", "2", "3", "4", "5", "6", "7", "8", "9">>

IsDigit(ch) == \E k \in 1..10 : Digits[k] = ch

DigitVal(ch) == (CHOOSE k \in 1..10 : Digits[k] = ch) - 1

RECURSIVE StripLeft(_)
StripLeft(s) == IF s # <<>> /\ Head(s) = " " THEN StripLeft(Tail(s)) ELSE s

RECURSIVE StripRight(_)
StripRight(s) ==
  IF s # <<>> /\ s[Len(s)] = " " THEN StripRight(SubSeq(s, 1, Len(s) - 1)) ELSE s

RECURSIVE ParseNat(_)
ParseNat(s) ==
  IF s = <<>> THEN 0 ELSE 10 * ParseNat(SubSeq(s, 1, Len(s) - 1)) + DigitVal(s[Len(s)])

AllDigits(s) == s # <<>> /\ \A k \in 1..Len(s) : IsDigit(s[k])

\* the text of a number: blanks around an optionally signed run of digits
ParseText(s) ==
  LET t == StripRight(StripLeft(s))
      signed == t # <<>> /\ Head(t) \in {"-", "+"}
      body == IF signed THEN Tail(t) ELSE t
  IN  IF ~AllDigits(body) THEN NULL
      ELSE IF signed /\ Head(t) = "-" THEN Num(0 - ParseNat(body))
      ELSE Num(ParseNat(body))

\* a coercion that parses text and drops what is not text
ToNumericTextOnly(cell) == IF IsStr(cell) THEN ParseText(cell.str) ELSE NULL

\* pd.to_numeric(x, errors="coerce") on one cell
ToNumeric(cell) ==
  IF IsNum(cell) THEN cell
  ELSE IF IsStr(cell) THEN ParseText(cell.str)
  ELSE NULL

(* ------------------------ the checks of Mode B ------------------------ *)
required_columns ==
  <<"customerID", "gender", "Partner", "Dependents",
    "PhoneService", "InternetService", "Contract",
    "tenure", "MonthlyCharges", "TotalCharges">>

RequiredSet == {required_columns[k] : k \in 1..Len(required_columns)}

GenderSet == {"Male", "Female"}
YesNoSet == {"Yes", "No"}
ContractSet == {"Month-to-month", "One year", "Two year"}
InternetSet == {"DSL", "Fiber optic", "No"}

YesNoColumns == <<"Partner", "Dependents", "PhoneService">>
NumericColumns == <<"tenure", "MonthlyCharges", "TotalCharges">>

\* Series.isin(values) on one cell: a null is in no set
isin(cell, values) == IsStr(cell) /\ cell.str \in values

\* df[col].isin(values).all()
AllIsin(d, col, values) == \A i \in DOMAIN d.rows : isin(d.rows[i][col], values)

\* ~(df[col] >= n).all(): a null counts as below n
AnyLessOrNull(d, col, n) ==
  \E i \in DOMAIN d.rows : ~(IsNum(d.rows[i][col]) /\ d.rows[i][col].num >= n)

\* (df[col] >= n).any()
AnyGreaterOrEqual(d, col, n) ==
  \E i \in DOMAIN d.rows : IsNum(d.rows[i][col]) /\ d.rows[i][col].num >= n

\* (df[col] < n).any() and (df[col] > n).any(): a null compares False
AnyLess(d, col, n) == \E i \in DOMAIN d.rows : IsNum(d.rows[i][col]) /\ d.rows[i][col].num < n
AnyGreater(d, col, n) == \E i \in DOMAIN d.rows : IsNum(d.rows[i][col]) /\ d.rows[i][col].num > n

\* the column test with the last required column left out
MissingColsButLast(d) ==
  SelectSeq(SubSeq(required_columns, 1, Len(required_columns) - 1),
            LAMBDA c : c \notin d.columns)

MissingCols(d) == SelectSeq(required_columns, LAMBDA c : c \notin d.columns)

Flag(cond, name) == IF cond THEN <<name>> ELSE <<>>

\* the value checks as an if/elif chain: only the first failure is recorded
DomainChecksFirstOnly(d) ==
  IF ~AllIsin(d, "gender", GenderSet) THEN <<"gender_invalid">>
  ELSE IF ~AllIsin(d, "Partner", YesNoSet) THEN <<"Partner_invalid">>
  ELSE IF ~AllIsin(d, "Dependents", YesNoSet) THEN <<"Dependents_invalid">>
  ELSE IF ~AllIsin(d, "PhoneService", YesNoSet) THEN <<"PhoneService_invalid">>
  ELSE IF ~AllIsin(d, "Contract", ContractSet) THEN <<"contract_invalid">>
  ELSE IF ~AllIsin(d, "InternetService", InternetSet) THEN <<"internet_invalid">>
  ELSE <<>>

DomainChecks(d) ==
  Flag(~AllIsin(d, "gender", GenderSet), "gender_invalid")
  \o Flag(~AllIsin(d, YesNoColumns[1], YesNoSet), YesNoColumns[1] \o "_invalid")
  \o Flag(~AllIsin(d, YesNoColumns[2], YesNoSet), YesNoColumns[2] \o "_invalid")
  \o Flag(~AllIsin(d, YesNoColumns[3], YesNoSet), YesNoColumns[3] \o "_invalid")
  \o Flag(~AllIsin(d, "Contract", ContractSet), "contract_invalid")
  \o Flag(~AllIsin(d, "InternetService", InternetSet), "internet_invalid")

\* a coercion of the column that keeps only what it parsed from text
CoerceColumnTextOnly(d, col) ==
  [d EXCEPT !.rows =
     [i \in DOMAIN d.rows |->
        [d.rows[i] EXCEPT ![col] = IF IsStr(@) THEN ParseText(@.str) ELSE NULL]]]

\* df[col] = pd.to_numeric(df[col], errors="coerce")
CoerceColumn(d, col) ==
  [d EXCEPT !.rows = [i \in DOMAIN d.rows |-> [d.rows[i] EXCEPT ![col] = ToNumeric(@)]]]

RangeChecks(d) ==
  Flag(AnyLess(d, "tenure", 0) \/ AnyGreater(d, "tenure", 120), "tenure_range")
  \o Flag(AnyLess(d, "MonthlyCharges", 0) \/ AnyGreater(d, "MonthlyCharges", 200),
          "monthly_charges_range")
  \o Flag(AnyLess(d, "TotalCharges", 0), "total_charges_negative")

Returned(passed, failed) == [passed |-> passed, failedChecks |-> failed]

\* a return that reports success whatever was recorded
FallbackReturnPassed(failed) == Returned(TRUE, failed)

FallbackReturn(failed) ==
  IF failed # <<>> THEN Returned(FALSE, failed) ELSE Returned(TRUE, <<>>)

(* ------------------ the expectations of Mode A ------------------------ *)
\* mostly=0.95, in percent.  The library compares success_count/counted
\* with 0.95 in doubles; the division is correctly rounded, so for any
\* dataset that fits in memory this is the exact comparison below.
Mostly == 95

Exist(c) == [type |-> "expect_column_to_exist", column |-> c]
NotNull(c) == [type |-> "expect_column_values_to_not_be_null", column |-> c]
InSet(c, values) ==
  [type |-> "expect_column_values_to_be_in_set", column |-> c, value_set |-> values]
Between(c, lo, hi) ==
  [type |-> "expect_column_values_to_be_between", column |-> c,
   min_value |-> lo, max_value |-> hi]
PairGE(a, b) ==
  [type |-> "expect_column_pair_values_A_to_be_greater_than_B",
   column_A |-> a, column_B |-> b, or_equal |-> TRUE, mostly |-> Mostly]

\* the expectations in the order the code declares them
Expectations ==
  <<Exist("customerID"), NotNull("customerID"),
    Exist("gender"), Exist("Partner"), Exist("Dependents"), Exist("PhoneService"),
    Exist("InternetService"), Exist("Contract"), Exist("tenure"),
    Exist("MonthlyCharges"), Exist("TotalCharges"),
    InSet("gender", GenderSet), InSet("Partner", YesNoSet),
    InSet("Dependents", YesNoSet), InSet("PhoneService", YesNoSet),
    InSet("Contract", ContractSet), InSet("InternetService", InternetSet),
    Between("tenure", Num(0), Num(120)), Between("MonthlyCharges", Num(0), Num(200)),
    Between("TotalCharges", Num(0), NULL),
    NotNull("tenure"), NotNull("MonthlyCharges"),
    PairGE("TotalCharges", "MonthlyCharges")>>

\* a value-level expectation skips the null cells of its column
InBounds(cell, lo, hi) ==
  /\ IsNum(cell)
  /\ IsNum(lo) => lo.num <= cell.num
  /\ IsNum(hi) => cell.num <= hi.num

\* the rows the pair expectation counts: the default
\* ignore_row_if="both_values_are_missing" leaves out the others
PairCounted(d, a, b) ==
  {i \in DOMAIN d.rows : ~(IsNull(d.rows[i][a]) /\ IsNull(d.rows[i][b]))}

\* the counted rows where A > B, or A = B as or_equal is set
PairExpected(d, a, b, or_equal) ==
  {i \in PairCounted(d, a, b) :
     /\ IsNum(d.rows[i][a]) /\ IsNum(d.rows[i][b])
     /\ \/ d.rows[i][a].num > d.rows[i][b].num
        \/ or_equal /\ d.rows[i][a].num = d.rows[i][b].num}

\* the threshold taken as exclusive
PairSuccessStrict(d, e) ==
  LET counted == Cardinality(PairCounted(d, e.column_A, e.column_B))
      expected == Cardinality(PairExpected(d, e.column_A, e.column_B, e.or_equal))
  IN  counted = 0 \/ 100 * expected > e.mostly * counted

PairSuccess(d, e) ==
  LET counted == Cardinality(PairCounted(d, e.column_A, e.column_B))
      expected == Cardinality(PairExpected(d, e.column_A, e.column_B, e.or_equal))
  IN  counted = 0 \/ 100 * expected >= e.mostly * counted

\* r["success"] of one expectation, on a dataset it can be evaluated on
Success(d, e) ==
  CASE e.type = "expect_column_to_exist" -> e.column \in d.columns
    [] e.type = "expect_column_values_to_not_be_null" ->
         \A i \in DOMAIN d.rows : ~IsNull(d.rows[i][e.column])
    [] e.type = "expect_column_values_to_be_in_set" ->
         \A i \in DOMAIN d.rows :
            IsNull(d.rows[i][e.column]) \/ isin(d.rows[i][e.column], e.value_set)
    [] e.type = "expect_column_values_to_be_between" ->
         \A i \in DOMAIN d.rows :
            IsNull(d.rows[i][e.column])
            \/ InBounds(d.rows[i][e.column], e.min_value, e.max_value)
    [] e.type = "expect_column_pair_values_A_to_be_greater_than_B" -> PairSuccess(d, e)

\* The expectations are evaluated as they are declared, and one that cannot
\* be evaluated raises out of validate_telco_data: a column that is absent
\* (KeyError), text compared with the numeric bounds (TypeError).
GERaises(d) ==
  \/ MissingCols(d) # <<>>
  \/ \E k \in 1..Len(NumericColumns) :
       \E i \in DOMAIN d.rows : IsStr(d.rows[i][NumericColumns[k]])

Raised == [raised |-> TRUE]

\* failed_expectations: the types of the results without success
FailedTypes(d) ==
  LET failing == SelectSeq(Expectations, LAMBDA e : ~Success(d, e))
  IN  [k \in 1..Len(failing) |-> failing[k].type]

\* results["success"]: every expectation succeeded
SuiteSuccess(d) == \A k \in 1..Len(Expectations) : Success(d, Expectations[k])

GEReturn(d) ==
  IF SuiteSuccess(d) THEN Returned(TRUE, <<>>) ELSE Returned(FALSE, FailedTypes(d))

(* ----------------------------- the inputs ----------------------------- *)
\* the record of scripts/test_fastapi.py, with a customerID
BaseRow ==
  [customerID |-> Str("1"), gender |-> Str("Male"), Partner |-> Str("Yes"),
   Dependents |-> Str("No"), PhoneService |-> Str("Yes"),
   InternetService |-> Str("Fiber optic"), Contract |-> Str("Month-to-month"),
   tenure |-> Num(5), MonthlyCharges |-> Num(70), TotalCharges |-> Num(350)]

With(col, cell) == [BaseRow EXCEPT ![col] = cell]

\* BaseRow and its variants in one cell
RowKinds ==
  <<BaseRow,
    With("customerID", NULL),
    With("gender", Str("Other")), With("gender", NULL),
    With("Partner", Str("Maybe")), With("Dependents", Str("Maybe")),
    With("PhoneService", Str("Maybe")), With("Contract", Str("Weekly")),
    With("InternetService", Str("Cable")),
    With("tenure", Num(-1)), With("tenure", Num(0)), With("tenure", Num(120)),
    With("tenure", Num(121)), With("tenure", NULL),
    With("tenure", Str(<<"5">>)), With("tenure", Str(<<"1", "5", "0">>)),
    With("tenure", Str(<<"a", "b", "c">>)),
    With("MonthlyCharges", Num(-1)), With("MonthlyCharges", Num(200)),
    With("MonthlyCharges", Num(201)), With("MonthlyCharges", NULL),
    With("MonthlyCharges", Str(<<"n", "a", "n">>)),
    With("TotalCharges", Num(-1)), With("TotalCharges", Num(10)),
    With("TotalCharges", Num(70)), With("TotalCharges", NULL),
    With("TotalCharges", Str(<<" ">>)), With("TotalCharges", Str(<<"-", "1">>)),
    With("TotalCharges", Str(<<" ", "7", "0", " ">>))>>

\* a row that breaks a rule in every kind of column
DirtyRow ==
  [BaseRow EXCEPT !.gender = Str("Other"), !.tenure = Str(<<"1", "5", "0">>),
                  !.MonthlyCharges = Num(201), !.TotalCharges = Str(<<" ">>)]

LowTotalRow == With("TotalCharges", Num(10))
NoChargesRow == [BaseRow EXCEPT !.MonthlyCharges = NULL, !.TotalCharges = NULL]

Dataset(cols, rows) ==
  [columns |-> cols,
   rows |-> [i \in DOMAIN rows |-> [c \in cols |-> rows[i][c]]]]

Copies(n, row) == [i \in 1..n |-> row]

\* every dataset of at most MaxRows rows of RowKinds, up to the order of the rows
NonDecreasing(n) ==
  {f \in [1..n -> 1..Len(RowKinds)] : \A i \in 1..(n - 1) : f[i] <= f[i + 1]}

SmallDatasets ==
  UNION {{Dataset(RequiredSet, [i \in 1..n |-> RowKinds[idx[i]]]) : idx \in NonDecreasing(n)} :
           n \in 0..MaxRows}

\* longer datasets: valid rows, rows with TotalCharges < MonthlyCharges and
\* rows with neither charge
BulkDatasets ==
  {Dataset(RequiredSet,
           Copies(t[1], BaseRow) \o Copies(t[2], LowTotalRow) \o Copies(t[3], NoChargesRow)) :
     t \in {u \in (0..MaxBulkRows) \X (0..MaxBulkBad) \X (0..MaxBulkNull) :
              /\ u[1] + u[2] + u[3] > MaxRows
              /\ u[1] + u[2] + u[3] <= MaxBulkRows}}

\* datasets that lack required columns
MissingDatasets ==
  {Dataset(RequiredSet \ m, rows) :
     m \in {x \in SUBSET RequiredSet : Cardinality(x) \in 1..MaxMissing},
     rows \in {<<>>, <<BaseRow>>, <<DirtyRow>>, <<BaseRow, DirtyRow>>}}

Datasets == SmallDatasets \cup BulkDatasets \cup MissingDatasets

(* ------------------------------ the calls ----------------------------- *)
\* Two calls run on the one DataFrame.  Mode B is cut into the column test,
\* the value checks, one step per coerced column and the range checks with
\* the return; the read and the write of a coerced column are one step.
\* Mode A writes nothing shared and is one step.
NoResult == [none |-> TRUE]

Init ==
  /\ GE_AVAILABLE \in BOOLEAN
  /\ df \in Datasets
  /\ df0 = df
  /\ pc = [c \in Callers |-> "idle"]
  /\ failed_expectations = [c \in Callers |-> <<>>]
  /\ result = [c \in Callers |-> NoResult]
  /\ overlapped = FALSE

Running(c) == pc[c] \notin {"idle", "done"}

\* validate_telco_data(df) is entered
Call(c) ==
  /\ pc[c] = "idle"
  /\ pc' = [pc EXCEPT ![c] = IF GE_AVAILABLE THEN "ge" ELSE "columns"]
  /\ failed_expectations' = [failed_expectations EXCEPT ![c] = <<>>]
  /\ overlapped' = (overlapped \/ \E o \in Callers \ {c} : Running(o))
  /\ UNCHANGED <<GE_AVAILABLE, df, result, df0>>

\* Mode A: the expectations, validate() and the return
ValidateGE(c) ==
  /\ pc[c] = "ge"
  /\ pc' = [pc EXCEPT ![c] = "done"]
  /\ IF GERaises(df)
       THEN /\ result' = [result EXCEPT ![c] = Raised]
            /\ UNCHANGED failed_expectations
       ELSE /\ result' = [result EXCEPT ![c] = GEReturn(df)]
            /\ failed_expectations' = [failed_expectations EXCEPT ![c] = FailedTypes(df)]
  /\ UNCHANGED <<GE_AVAILABLE, df, df0, overlapped>>

\* Mode B: the required columns
CheckColumns(c) ==
  /\ pc[c] = "columns"
  /\ IF MissingCols(df) # <<>>
       THEN LET failed == Append(failed_expectations[c], "missing_required_columns")
            IN  /\ failed_expectations' = [failed_expectations EXCEPT ![c] = failed]
                /\ result' = [result EXCEPT ![c] = Returned(FALSE, failed)]
                /\ pc' = [pc EXCEPT ![c] = "done"]
       ELSE /\ pc' = [pc EXCEPT ![c] = "domain"]
            /\ UNCHANGED <<failed_expectations, result>>
  /\ UNCHANGED <<GE_AVAILABLE, df, df0, overlapped>>

\* Mode B: the value checks of the categorical columns
CheckDomains(c) ==
  /\ pc[c] = "domain"
  /\ failed_expectations' =
       [failed_expectations EXCEPT ![c] = @ \o DomainChecks(df)]
  /\ pc' = [pc EXCEPT ![c] = "coerce_" \o NumericColumns[1]]
  /\ UNCHANGED <<GE_AVAILABLE, df, result, df0, overlapped>>

\* Mode B: one turn of the loop that coerces the numeric columns
Coerce(c) ==
  \E k \in 1..Len(NumericColumns) :
    /\ pc[c] = "coerce_" \o NumericColumns[k]
    /\ df' = CoerceColumn(df, NumericColumns[k])
    /\ pc' = [pc EXCEPT ![c] = IF k < Len(NumericColumns)
                                 THEN "coerce_" \o NumericColumns[k + 1]
                                 ELSE "range"]
    /\ UNCHANGED <<GE_AVAILABLE, failed_expectations, result, df0, overlapped>>

\* Mode B: the numeric ranges and the return
CheckRanges(c) ==
  /\ pc[c] = "range"
  /\ LET failed == failed_expectations[c] \o RangeChecks(df)
     IN  /\ failed_expectations' = [failed_expectations EXCEPT ![c] = failed]
         /\ result' = [result EXCEPT ![c] = FallbackReturn(failed)]
  /\ pc' = [pc EXCEPT ![c] = "done"]
  /\ UNCHANGED <<GE_AVAILABLE, df, df0, overlapped>>

Next ==
  \E c \in Callers :
    \/ Call(c)
    \/ ValidateGE(c)
    \/ CheckColumns(c)
    \/ CheckDomains(c)
    \/ Coerce(c)
    \/ CheckRanges(c)

Spec == Init /\ [][Next]_vars

(* ------------------- the function, run alone on d --------------------- *)
CoerceAll(d) ==
  CoerceColumn(CoerceColumn(CoerceColumn(d, NumericColumns[1]), NumericColumns[2]),
               NumericColumns[3])

ValidateAlone(ge, d) ==
  IF ge
    THEN IF GERaises(d) THEN Raised ELSE GEReturn(d)
    ELSE IF MissingCols(d) # <<>>
           THEN Returned(FALSE, <<"missing_required_columns">>)
           ELSE FallbackReturn(DomainChecks(d) \o RangeChecks(CoerceAll(d)))

(* ------------------------------ the claims ---------------------------- *)
Done(c) == pc[c] = "done"
HasReturned(c) == Done(c) /\ "passed" \in DOMAIN result[c]
Elems(seq) == {seq[k] : k \in 1..Len(seq)}
AllColumns(d) == RequiredSet \subseteq d.columns
Rows(d) == {d.rows[i] : i \in DOMAIN d.rows}

\* C1: in both modes, a returned result has passed = TRUE exactly when its
\* failedChecks list is empty.
C1_PassedIffNoFailedChecks ==
  \A c \in Callers :
    HasReturned(c) => (result[c].passed <=> result[c].failedChecks = <<>>)

\* a call of Mode B returned FALSE with two checks recorded
C1_Witness ==
  /\ ~GE_AVAILABLE
  /\ HasReturned(1)
  /\ ~result[1].passed
  /\ Len(result[1].failedChecks) = 2

\* C2: in Mode B a dataset that lacks a required column makes the call return
\* (FALSE, <<"missing_required_columns">>) straight from the column test: the
\* call never reaches the domain checks, the coercion or the range checks, and
\* the dataset is not written.
C2_MissingColumnsShortCircuit ==
  (~GE_AVAILABLE /\ ~AllColumns(df0)) =>
    /\ df = df0
    /\ \A c \in Callers :
         /\ pc[c] \in {"idle", "columns", "done"}
         /\ Done(c) => result[c] = Returned(FALSE, <<"missing_required_columns">>)

\* a call returned on a dataset without Contract whose rows break other rules
C2_Witness ==
  /\ ~GE_AVAILABLE
  /\ "Contract" \notin df0.columns
  /\ Len(df0.rows) = 2
  /\ Done(1)
  /\ result[1] = Returned(FALSE, <<"missing_required_columns">>)

\* the rules of the data model, on one row
RowValid(row) ==
  /\ ~IsNull(row.customerID)
  /\ \E v \in GenderSet : row.gender = Str(v)
  /\ \E v \in YesNoSet : row.Partner = Str(v)
  /\ \E v \in YesNoSet : row.Dependents = Str(v)
  /\ \E v \in YesNoSet : row.PhoneService = Str(v)
  /\ \E v \in ContractSet : row.Contract = Str(v)
  /\ \E v \in InternetSet : row.InternetService = Str(v)
  /\ IsNum(row.tenure) /\ row.tenure.num \in 0..120
  /\ IsNum(row.MonthlyCharges) /\ row.MonthlyCharges.num \in 0..200
  /\ IsNum(row.TotalCharges) /\ row.TotalCharges.num >= 0

Consistent(row) ==
  /\ IsNum(row.TotalCharges) /\ IsNum(row.MonthlyCharges)
  /\ row.TotalCharges.num >= row.MonthlyCharges.num

ConsistentCount(d) == Cardinality({i \in DOMAIN d.rows : Consistent(d.rows[i])})

ValidDataset(d) ==
  /\ AllColumns(d)
  /\ \A i \in DOMAIN d.rows : RowValid(d.rows[i])
  /\ 100 * ConsistentCount(d) >= 95 * Len(d.rows)

\* C3: on a dataset with every required column whose rows satisfy every rule
\* of the data model, at least 95% of them with TotalCharges >= MonthlyCharges,
\* a call of either mode returns (TRUE, <<>>).
C3_ValidDatasetPasses ==
  ValidDataset(df0) => \A c \in Callers : Done(c) => result[c] = Returned(TRUE, <<>>)

\* Mode B passed a valid dataset with tenure and MonthlyCharges at their upper bounds
C3_Witness ==
  /\ ~GE_AVAILABLE
  /\ ValidDataset(df0)
  /\ \E i \in DOMAIN df0.rows : df0.rows[i].tenure = Num(120)
  /\ \E i \in DOMAIN df0.rows : df0.rows[i].MonthlyCharges = Num(200)
  /\ Done(1) /\ result[1] = Returned(TRUE, <<>>)

OutOfRange(cell, lo, hi) ==
  LET v == ToNumeric(cell)
  IN  IsNum(v) /\ (v.num < lo.num \/ (IsNum(hi) /\ v.num > hi.num))

\* the rule behind each identifier of Mode B, on one row as the caller gave it
Violates(id, row) ==
  CASE id = "gender_invalid" -> ~\E v \in GenderSet : row.gender = Str(v)
    [] id = "Partner_invalid" -> ~\E v \in YesNoSet : row.Partner = Str(v)
    [] id = "Dependents_invalid" -> ~\E v \in YesNoSet : row.Dependents = Str(v)
    [] id = "PhoneService_invalid" -> ~\E v \in YesNoSet : row.PhoneService = Str(v)
    [] id = "contract_invalid" -> ~\E v \in ContractSet : row.Contract = Str(v)
    [] id = "internet_invalid" -> ~\E v \in InternetSet : row.InternetService = Str(v)
    [] id = "tenure_range" -> OutOfRange(row.tenure, Num(0), Num(120))
    [] id = "monthly_charges_range" -> OutOfRange(row.MonthlyCharges, Num(0), Num(200))
    [] id = "total_charges_negative" -> OutOfRange(row.TotalCharges, Num(0), NULL)

Identifiers ==
  {"gender_invalid", "Partner_invalid", "Dependents_invalid", "PhoneService_invalid",
   "contract_invalid", "internet_invalid", "tenure_range", "monthly_charges_range",
   "total_charges_negative"}

\* C4: in Mode B, with every required column present, each of the nine
\* identifiers is in failedChecks exactly when some row breaks that
\* identifier's own rule, whatever other rules are broken.
C4_ChecksIndependent ==
  (~GE_AVAILABLE /\ AllColumns(df0)) =>
    \A c \in Callers :
      Done(c) =>
        \A id \in Identifiers :
          id \in Elems(result[c].failedChecks) <=> \E row \in Rows(df0) : Violates(id, row)

\* a call that recorded a domain identifier and a range identifier together
C4_Witness ==
  /\ ~GE_AVAILABLE
  /\ Done(1)
  /\ result[1] = Returned(FALSE, <<"gender_invalid", "tenure_range">>)

\* C5: when a call has returned, the dataset the caller passed holds the
\* values it held before the call.
C5_DatasetUnchanged == \A c \in Callers : Done(c) => df = df0

\* C6: two calls in succession on the same dataset object, the second made
\* after the first has returned, return the same result.
C6_Idempotent ==
  (Done(1) /\ Done(2) /\ ~overlapped) => result[1] = result[2]

\* the second call ran on a dataset the first call had rewritten
C6_Witness ==
  /\ Done(1) /\ Done(2) /\ ~overlapped
  /\ ~GE_AVAILABLE
  /\ df # df0
  /\ HasReturned(2) /\ "tenure_range" \in Elems(result[2].failedChecks)

PairType == "expect_column_pair_values_A_to_be_greater_than_B"

\* C7 as claimed: in Mode A the consistency check passes exactly when at
\* least 95% of the rows of the dataset have TotalCharges >= MonthlyCharges.
C7_PairMostlyOfAllRows ==
  \A c \in Callers :
    (GE_AVAILABLE /\ HasReturned(c)) =>
      (PairType \notin Elems(failed_expectations[c])
         <=> 100 * ConsistentCount(df0) >= 95 * Len(df0.rows))

\* the rows with a value in TotalCharges or in MonthlyCharges
ChargedCount(d) ==
  Cardinality({i \in DOMAIN d.rows :
                 ~IsNull(d.rows[i].TotalCharges) \/ ~IsNull(d.rows[i].MonthlyCharges)})

\* C7 as amended: in Mode A the consistency check passes exactly when at
\* least 95% of the rows that have a value in either column have
\* TotalCharges >= MonthlyCharges, and a failed check makes passed = FALSE.
C7_PairMostlyOfChargedRows ==
  \A c \in Callers :
    (GE_AVAILABLE /\ HasReturned(c)) =>
      /\ PairType \notin Elems(failed_expectations[c])
           <=> 100 * ConsistentCount(df0) >= 95 * ChargedCount(df0)
      /\ PairType \in Elems(failed_expectations[c]) => ~result[c].passed

\* 1 row in 20 breaks the rule and the dataset passes
C7_Witness ==
  /\ GE_AVAILABLE
  /\ Len(df0.rows) = 20
  /\ ConsistentCount(df0) = 19
  /\ HasReturned(1) /\ result[1] = Returned(TRUE, <<>>)

\* C8: a call returns what it returns when run alone on the dataset, however
\* its steps interleave with those of another call on the same object.
C8_ConcurrentCallsIndependent ==
  \A c \in Callers : Done(c) => result[c] = ValidateAlone(GE_AVAILABLE, df0)

\* two overlapping calls of Mode B returned on a dataset they rewrote
C8_Witness ==
  /\ overlapped /\ Done(1) /\ Done(2)
  /\ ~GE_AVAILABLE
  /\ df # df0
  /\ HasReturned(1) /\ ~result[1].passed

\* C9: a call that returns passed = TRUE was given a dataset with no null
\* customerID.
C9_PassedHasCustomerIds ==
  \A c \in Callers :
    (HasReturned(c) /\ result[c].passed) =>
      \A i \in DOMAIN df0.rows : ~IsNull(df0.rows[i].customerID)

Unparseable(cell) == IsStr(cell) /\ IsNull(ToNumeric(cell))

RangeIdentifiers == <<"tenure_range", "monthly_charges_range", "total_charges_negative">>

\* C10 as claimed: in Mode B a numeric column with an unparseable value has
\* its range identifier recorded, and the dataset is not passed.
C10_UnparseableFailsRange ==
  (~GE_AVAILABLE /\ AllColumns(df0)) =>
    \A c \in Callers : \A k \in 1..Len(NumericColumns) :
      (Done(c) /\ \E row \in Rows(df0) : Unparseable(row[NumericColumns[k]])) =>
        /\ RangeIdentifiers[k] \in Elems(result[c].failedChecks)
        /\ ~result[c].passed

\* C10 as amended: in Mode B an unparseable value of a numeric column is null
\* once the call has returned, and the column's range identifier is recorded
\* exactly when some row holds a number out of range: the null itself fails
\* no check.
C10_UnparseableCoercedNotFailed ==
  (~GE_AVAILABLE /\ AllColumns(df0)) =>
    \A c \in Callers : \A k \in 1..Len(NumericColumns) :
      Done(c) =>
        /\ \A i \in DOMAIN df0.rows :
             Unparseable(df0.rows[i][NumericColumns[k]]) => IsNull(df.rows[i][NumericColumns[k]])
        /\ RangeIdentifiers[k] \in Elems(result[c].failedChecks)
             <=> \E row \in Rows(df0) : Violates(RangeIdentifiers[k], row)

\* a dataset with unparseable tenure and TotalCharges is passed
C10_Witness ==
  /\ ~GE_AVAILABLE
  /\ AllColumns(df0)
  /\ \E row \in Rows(df0) : Unparseable(row.tenure)
  /\ \E row \in Rows(df0) : Unparseable(row.TotalCharges)
  /\ Done(1) /\ result[1] = Returned(TRUE, <<>>)

====
